---- MODULE Spec2Model ----
(***************************************************************************)
(* A model of the chat-message normalization and response adaptation layer *)
(* of First_agent_example/local_model.py (class LocalModel).               *)
(*                                                                         *)
(* Python values are tagged records: a str is [t |-> "str", s |-> "..."],  *)
(* None is [t |-> "none"], an int is [t |-> "int", n |-> 7], a dict is     *)
(* [t |-> "dict", d |-> <function from key to value>], a list is           *)
(* [t |-> "list", items |-> <<...>>] and an object with attributes is      *)
(* [t |-> "obj", cls |-> ..., id |-> ..., a |-> <attributes>].             *)
(* A computation that may raise yields [ok |-> TRUE, v |-> value] or       *)
(* [ok |-> FALSE, m |-> str(exception)].                                   *)
(***************************************************************************)
EXTENDS Integers, Sequences, FiniteSets, TLC

VARIABLES
    pc,          \* "start" before the call, "returned" once __call__ returned
    temperature, \* self.temperature, fixed at construction
    hasTemplate, \* hasattr(self.tokenizer, "apply_chat_template")
    messages,    \* the conversation handed to __call__
    conversation, \* the caller's conversation object as the call left it
    stream,      \* the stream flag handed to __call__
    kwargs,      \* the caller's generation options
    impl,        \* "real": LocalModel.generate; "replaced": generate replaced as in ut.py
    smol,        \* "from smolagents.agents import ActionStep" succeeds
    tmplFails,   \* tokenizer.apply_chat_template raises when it is called
    norm,        \* what _format_messages returned inside generate
    genFault,    \* the exception raised inside generate's try, if any
    forwarded,   \* the option bag passed to self.model.generate
    genRet,      \* what generate returned (or raised, when replaced)
    ret,         \* what __call__ returned
    streamer,    \* the underlying fragment stream of a streaming call
    worker,      \* the generation thread of a streaming call
    yielded,     \* the envelopes the wrapper has yielded so far
    stops,       \* how many pulls signalled end-of-sequence (saturating)
    pullParity,  \* the number of pulls that returned so far, modulo 2
    tool         \* one run of get_local_time_from_ip: position, locals, requests made, result

vars == <<pc, temperature, hasTemplate, tmplFails, messages, conversation, stream, kwargs, impl, smol, norm,
          genFault, forwarded, genRet, ret, streamer, worker, yielded, stops,
          pullParity, tool>>

----------------------------------------------------------------------------
(* Bounds *)

MaxOpts == 2      \* caller options per call
MaxFrags == 2     \* fragments of one underlying stream
MaxYield == MaxFrags + 2   \* envelopes recorded in yielded
MaxStops == 2     \* end-of-sequence signals counted
MaxMsgs == 2      \* messages of one conversation handed to _format_messages

----------------------------------------------------------------------------
(* Python values *)

PStr(s) == [t |-> "str", s |-> s]
PInt(n) == [t |-> "int", n |-> n]
PBool(b) == [t |-> "bool", b |-> b]
PNone == [t |-> "none"]
PDict(d) == [t |-> "dict", d |-> d]
PList(items) == [t |-> "list", items |-> items]
PObj(cls, id, a) == [t |-> "obj", cls |-> cls, id |-> id, a |-> a]

Ok(v) == [ok |-> TRUE, v |-> v]
Raise(m) == [ok |-> FALSE, m |-> m]

NoFault == [at |-> "none"]
Fault(at, m) == [at |-> at, m |-> m]

Nothing == [t |-> "nothing"]   \* a variable that holds no value yet
AbsentField == [t |-> "absent"]   \* a key that a mapping does not have

(* dict.update / {**a, **b}: the keys of b win *)
Update(a, b) == b @@ a

(* dict.pop(k) when k is present; the bag without k *)
Without(d, k) == [x \in (DOMAIN d) \ {k} |-> d[x]]

StartsWith(s, p) == Len(s) >= Len(p) /\ SubSeq(s, 1, Len(p)) = p

----------------------------------------------------------------------------
(* Python string conversions *)

Lower == "abcdefghijklmnopqrstuvwxyz"
Upper == "ABCDEFGHIJKLMNOPQRSTUVWXYZ"

CharIn(c, alphabet) == \E i \in 1..Len(alphabet) : SubSeq(alphabet, i, i) = c
PosIn(c, alphabet) == CHOOSE i \in 1..Len(alphabet) : SubSeq(alphabet, i, i) = c

ToUpper(c) == IF CharIn(c, Lower) THEN SubSeq(Upper, PosIn(c, Lower), PosIn(c, Lower)) ELSE c
ToLower(c) == IF CharIn(c, Upper) THEN SubSeq(Lower, PosIn(c, Upper), PosIn(c, Upper)) ELSE c

RECURSIVE LowerAll(_)
LowerAll(s) == IF Len(s) = 0 THEN "" ELSE ToLower(SubSeq(s, 1, 1)) \o LowerAll(Tail(s))

(* only the first character is upper-cased, the rest is kept *)
CapitalizeFirstOnly(s) == IF Len(s) = 0 THEN "" ELSE ToUpper(SubSeq(s, 1, 1)) \o Tail(s)

(* str.capitalize: first character upper-cased, the rest lower-cased *)
Capitalize(s) == IF Len(s) = 0 THEN "" ELSE ToUpper(SubSeq(s, 1, 1)) \o LowerAll(Tail(s))

Digit(d) == SubSeq("0123456789", d + 1, d + 1)

RECURSIVE NatStr(_)
NatStr(n) == IF n < 10 THEN Digit(n) ELSE NatStr(n \div 10) \o Digit(n % 10)

IntStr(n) == IF n < 0 THEN "-" \o NatStr(0 - n) ELSE NatStr(n)

(* the keys of the dicts of the model, in the order they are inserted *)
KeyOrder == <<"role", "type", "text", "content">>

RECURSIVE PyRepr(_)
RECURSIVE ReprItems(_)
RECURSIVE ReprKeys(_, _)
(* repr(v) *)
PyRepr(v) ==
    CASE v.t = "str" -> "'" \o v.s \o "'"
      [] v.t = "int" -> IntStr(v.n)
      [] v.t = "bool" -> IF v.b THEN "True" ELSE "False"
      [] v.t = "none" -> "None"
      [] v.t = "list" -> "[" \o ReprItems(v.items) \o "]"
      [] v.t = "dict" -> "{" \o ReprKeys(v.d, SelectSeq(KeyOrder, LAMBDA k : k \in DOMAIN v.d)) \o "}"
      [] OTHER -> "<object>"
ReprItems(items) ==
    IF Len(items) = 0 THEN ""
    ELSE IF Len(items) = 1 THEN PyRepr(items[1])
    ELSE PyRepr(items[1]) \o ", " \o ReprItems(Tail(items))
ReprKeys(d, keys) ==
    IF Len(keys) = 0 THEN ""
    ELSE IF Len(keys) = 1 THEN "'" \o keys[1] \o "': " \o PyRepr(d[keys[1]])
    ELSE "'" \o keys[1] \o "': " \o PyRepr(d[keys[1]]) \o ", " \o ReprKeys(d, Tail(keys))

(* str(v) *)
PyStr(v) == IF v.t = "str" THEN v.s ELSE PyRepr(v)

----------------------------------------------------------------------------
(* Message Normalizer: LocalModel._format_messages *)

SafeDefaultPrompt == "User: Please help me.\nAssistant: "

(* one content fragment -> the piece appended to extracted_text *)
ExtractItem(item) ==
    IF item.t = "dict" /\ "text" \in DOMAIN item.d THEN item.d["text"]
    ELSE IF item.t = "str" THEN item
    ELSE PStr(PyStr(item))

RECURSIVE JoinNewline(_)
(* "\n".join(extracted_text): raises TypeError on a piece that is not a str *)
JoinNewline(pieces) ==
    IF Len(pieces) = 0 THEN Ok("")
    ELSE IF pieces[1].t # "str" THEN Raise("sequence item: expected str instance")
    ELSE IF Len(pieces) = 1 THEN Ok(pieces[1].s)
    ELSE LET rest == JoinNewline(Tail(pieces))
         IN  IF rest.ok THEN Ok(pieces[1].s \o "\n" \o rest.v) ELSE rest

(* the content of a message resolved to a plain string *)
ResolveContent(content) ==
    IF content.t = "list"
    THEN JoinNewline([i \in 1..Len(content.items) |-> ExtractItem(content.items[i])])
    ELSE IF content.t # "str" THEN Ok(PyStr(content))
    ELSE Ok(content.s)

(* the loop body without the "ensure message has content field" step: a
   message without content raises KeyError *)
ProcessMessageNoDefault(message) ==
    IF message.t = "str"
    THEN Ok(PDict([role |-> PStr("user"), content |-> message]))
    ELSE IF message.t # "dict" THEN Raise("object has no attribute or item assignment")
    ELSE IF "content" \notin DOMAIN message.d THEN Raise("'content'")
    ELSE LET resolved == ResolveContent(message.d["content"])
         IN  IF resolved.ok
             THEN Ok(PDict(Update(message.d, [content |-> PStr(resolved.v)])))
             ELSE resolved

(* one iteration of the loop of the chat-template path: the processed message *)
ProcessMessage(message) ==
    IF message.t = "str"
    THEN Ok(PDict([role |-> PStr("user"), content |-> message]))
    ELSE IF message.t # "dict" THEN Raise("object has no attribute or item assignment")
    ELSE LET withContent == IF "content" \in DOMAIN message.d
                            THEN message.d
                            ELSE Update(message.d, [content |-> PStr("")])
             resolved == ResolveContent(withContent["content"])
         IN  IF resolved.ok
             THEN Ok(PDict(Update(withContent, [content |-> PStr(resolved.v)])))
             ELSE resolved

RECURSIVE ProcessMessages(_)
ProcessMessages(msgs) ==
    IF Len(msgs) = 0 THEN Ok(<<>>)
    ELSE LET first == ProcessMessage(msgs[1])
         IN  IF ~first.ok THEN first
             ELSE LET rest == ProcessMessages(Tail(msgs))
                  IN  IF rest.ok THEN Ok(<<first.v>> \o rest.v) ELSE rest

(* a loop body that writes to the message itself instead of to a copy *)
OriginalAfterInPlace(message) ==
    IF message.t = "dict" /\ ProcessMessage(message).ok THEN ProcessMessage(message).v
    ELSE IF message.t = "dict" /\ "content" \notin DOMAIN message.d
    THEN PDict(Update(message.d, [content |-> PStr("")]))
    ELSE message

(* the caller's message after one iteration of the template loop: every
   assignment of the loop goes to processed_message, which is message.copy()
   or a new dict, so the message keeps its keys and values *)
OriginalAfter(message) == message

RECURSIVE ItemsAfter(_)
(* the caller's messages after the template loop, which stops at the first
   message that raises *)
ItemsAfter(items) ==
    IF Len(items) = 0 THEN <<>>
    ELSE IF ProcessMessage(items[1]).ok
    THEN <<OriginalAfter(items[1])>> \o ItemsAfter(Tail(items))
    ELSE <<OriginalAfter(items[1])>> \o Tail(items)

(* the caller's conversation after _format_messages: a single dict is put in
   a new list, the template loop works on copies and the fallback loop only
   reads *)
ConversationAfter(msgs, hasTmpl) ==
    IF msgs.t = "dict" /\ hasTmpl THEN OriginalAfter(msgs)
    ELSE IF msgs.t = "list" /\ hasTmpl THEN PList(ItemsAfter(msgs.items))
    ELSE msgs

RECURSIVE RenderChatML(_)
(* the chat-formatting capability of the tokenizer, with the generation cue *)
RenderChatML(processed) ==
    IF Len(processed) = 0 THEN "<|im_start|>assistant\n"
    ELSE "<|im_start|>" \o processed[1].d["role"].s \o "\n"
         \o processed[1].d["content"].s \o "<|im_end|>\n"
         \o RenderChatML(Tail(processed))

(* tokenizer.apply_chat_template(processed, tokenize=False, add_generation_prompt=True);
   delegateFails is the delegate's own failure *)
apply_chat_template(processed, delegateFails) ==
    IF delegateFails THEN Raise("template error")
    ELSE IF \E i \in 1..Len(processed) :
                 \/ "role" \notin DOMAIN processed[i].d
                 \/ processed[i].d["role"].t # "str"
         THEN Raise("template error")
    ELSE Ok(RenderChatML(processed))

(* a fallback loop body that converts a missing content with str: "None" *)
FallbackLineStrOfMissing(message) ==
    IF message.t = "str" THEN Ok("User: " \o message.s \o "\n")
    ELSE IF message.t # "dict" THEN Raise("object has no attribute 'get'")
    ELSE LET role == IF "role" \in DOMAIN message.d THEN message.d["role"] ELSE PStr("user")
             resolved == IF "content" \notin DOMAIN message.d THEN Ok(PyStr(PNone))
                         ELSE ResolveContent(message.d["content"])
         IN  IF ~resolved.ok THEN resolved
             ELSE IF role.t # "str" THEN Raise("object has no attribute 'capitalize'")
             ELSE Ok(Capitalize(role.s) \o ": " \o resolved.v \o "\n")

(* one iteration of the loop of the fallback path: the line added *)
FallbackLine(message) ==
    IF message.t = "str" THEN Ok("User: " \o message.s \o "\n")
    ELSE IF message.t # "dict" THEN Raise("object has no attribute 'get'")
    ELSE LET role == IF "role" \in DOMAIN message.d THEN message.d["role"] ELSE PStr("user")
             resolved == IF "content" \notin DOMAIN message.d THEN Ok("")
                         ELSE ResolveContent(message.d["content"])
         IN  IF ~resolved.ok THEN resolved
             ELSE IF role.t # "str" THEN Raise("object has no attribute 'capitalize'")
             ELSE Ok(Capitalize(role.s) \o ": " \o resolved.v \o "\n")

RECURSIVE FallbackLinesSkipping(_)
(* a loop that catches the exception of one message and goes on with the next *)
FallbackLinesSkipping(msgs) ==
    IF Len(msgs) = 0 THEN Ok("")
    ELSE LET first == FallbackLine(msgs[1])
             rest == FallbackLinesSkipping(Tail(msgs))
         IN  IF first.ok THEN Ok(first.v \o rest.v) ELSE rest

RECURSIVE FallbackLines(_)
FallbackLines(msgs) ==
    IF Len(msgs) = 0 THEN Ok("")
    ELSE LET first == FallbackLine(msgs[1])
         IN  IF ~first.ok THEN first
             ELSE LET rest == FallbackLines(Tail(msgs))
                  IN  IF rest.ok THEN Ok(first.v \o rest.v) ELSE rest

(* the fallback assembly with its own try/except *)
FallbackFormat(msgs) ==
    IF msgs.t # "list" THEN [text |-> SafeDefaultPrompt, path |-> "default"]
    ELSE LET lines == FallbackLines(msgs.items)
         IN  IF lines.ok THEN [text |-> lines.v \o "Assistant: ", path |-> "fallback"]
             ELSE [text |-> SafeDefaultPrompt, path |-> "default"]

(* the chat-template path: Ok(prompt) or the exception its try catches *)
TemplateFormat(msgs, delegateFails) ==
    IF msgs.t # "list" THEN Raise("object is not iterable")
    ELSE LET processed == ProcessMessages(msgs.items)
         IN  IF ~processed.ok THEN processed
             ELSE apply_chat_template(processed.v, delegateFails)

(* _format_messages whose first except returns the safe default prompt
   instead of going on to the simple format *)
format_messages_without_fallback(msgs, hasTmpl, delegateFails) ==
    IF msgs.t = "str"
    THEN [text |-> "User: " \o msgs.s \o "\nAssistant: ", path |-> "string", processed |-> Nothing]
    ELSE LET lifted == IF msgs.t = "dict" THEN PList(<<msgs>>) ELSE msgs
             processed == IF hasTmpl /\ lifted.t = "list"
                          THEN ProcessMessages(lifted.items) ELSE Raise("none")
             templated == IF hasTmpl THEN TemplateFormat(lifted, delegateFails)
                          ELSE Raise("none")
         IN  IF templated.ok
             THEN [text |-> templated.v, path |-> "template", processed |-> PList(processed.v)]
             ELSE IF hasTmpl
             THEN [text |-> SafeDefaultPrompt, path |-> "default",
                   processed |-> IF processed.ok THEN PList(processed.v) ELSE Nothing]
             ELSE FallbackFormat(lifted)
                    @@ [processed |-> IF processed.ok THEN PList(processed.v) ELSE Nothing]

(* _format_messages without the dict case: the loops iterate over the dict,
   that is over its keys *)
format_messages_without_lift(msgs, hasTmpl, delegateFails) ==
    IF msgs.t = "str"
    THEN [text |-> "User: " \o msgs.s \o "\nAssistant: ", path |-> "string", processed |-> Nothing]
    ELSE LET keys == IF msgs.t = "dict"
                     THEN SelectSeq(KeyOrder, LAMBDA k : k \in DOMAIN msgs.d) ELSE <<>>
             lifted == IF msgs.t = "dict"
                       THEN PList([i \in 1..Len(keys) |-> PStr(keys[i])]) ELSE msgs
             processed == IF hasTmpl /\ lifted.t = "list"
                          THEN ProcessMessages(lifted.items) ELSE Raise("none")
             templated == IF hasTmpl THEN TemplateFormat(lifted, delegateFails)
                          ELSE Raise("none")
         IN  IF templated.ok
             THEN [text |-> templated.v, path |-> "template", processed |-> PList(processed.v)]
             ELSE FallbackFormat(lifted)
                    @@ [processed |-> IF processed.ok THEN PList(processed.v) ELSE Nothing]

(* _format_messages without the string case: a string is lifted into a
   one-element sequence like a single message *)
format_messages_lifting_strings(msgs, hasTmpl, delegateFails) ==
    LET lifted == IF msgs.t \in {"dict", "str"} THEN PList(<<msgs>>) ELSE msgs
        processed == IF hasTmpl /\ lifted.t = "list"
                     THEN ProcessMessages(lifted.items) ELSE Raise("none")
        templated == IF hasTmpl THEN TemplateFormat(lifted, delegateFails)
                     ELSE Raise("none")
    IN  IF templated.ok
        THEN [text |-> templated.v, path |-> "template", processed |-> PList(processed.v)]
        ELSE FallbackFormat(lifted)
               @@ [processed |-> IF processed.ok THEN PList(processed.v) ELSE Nothing]

(* _format_messages(messages): the prompt, the path that produced it and the
   list handed to the chat-template delegate *)
format_messages(msgs, hasTmpl, delegateFails) ==
    IF msgs.t = "str"
    THEN [text |-> "User: " \o msgs.s \o "\nAssistant: ", path |-> "string", processed |-> Nothing]
    ELSE LET lifted == IF msgs.t = "dict" THEN PList(<<msgs>>) ELSE msgs
             processed == IF hasTmpl /\ lifted.t = "list"
                          THEN ProcessMessages(lifted.items) ELSE Raise("none")
             templated == IF hasTmpl THEN TemplateFormat(lifted, delegateFails)
                          ELSE Raise("none")
         IN  IF templated.ok
             THEN [text |-> templated.v, path |-> "template", processed |-> PList(processed.v)]
             ELSE FallbackFormat(lifted)
                    @@ [processed |-> IF processed.ok THEN PList(processed.v) ELSE Nothing]

----------------------------------------------------------------------------
(* Generation Invocation: LocalModel.generate *)

MaxTokensDefault == 2048

(* self.tokenizer.eos_token_id *)
EosTokenId == [t |-> "attr", of |-> "tokenizer.eos_token_id"]

StreamerHandle == PObj("TextIteratorStreamer", "streamer", <<>>)

DupKwMsg == "generate() got multiple values for keyword argument"

(* self.tokenizer(formatted_input, return_tensors="pt").to(self.device) *)
Tokenize(text) ==
    [input_ids |-> [t |-> "tensor", of |-> text],
     attention_mask |-> [t |-> "tensor", of |-> "ones"]]

(* generation_config before the caller's options are merged *)
DefaultConfig(temp) ==
    [max_new_tokens |-> PInt(MaxTokensDefault),
     temperature |-> PInt(temp),
     do_sample |-> PBool(temp > 0),
     pad_token_id |-> EosTokenId]

(* kwargs with the unsupported option left in *)
DropNothing(kw) == kw

(* kwargs after "if 'stop_sequences' in kwargs: kwargs.pop('stop_sequences')" *)
DropUnsupported(kw) ==
    IF "stop_sequences" \in DOMAIN kw THEN Without(kw, "stop_sequences") ELSE kw

(* the merge the other way round: the defaults replace the caller's values *)
GenerationConfigDefaultsWin(temp, kw) == Update(DropUnsupported(kw), DefaultConfig(temp))

(* generation_config after generation_config.update(kwargs) *)
GenerationConfig(temp, kw) == Update(DefaultConfig(temp), DropUnsupported(kw))

(* the streamer set before the caller's options are merged: a caller's
   streamer option replaces it *)
StreamConfigCallerWins(temp, kw) ==
    Update([streamer |-> StreamerHandle], GenerationConfig(temp, kw))

(* generation_config of the stream branch: the streamer key is set last *)
StreamConfig(temp, kw) == Update(GenerationConfig(temp, kw), [streamer |-> StreamerHandle])

(* generate without its except branch: the exception leaves generate *)
GenerateExceptPropagates(at, m, nrm, fwd) ==
    [ret |-> Raise(m), fault |-> Fault(at, m),
     norm |-> nrm, forwarded |-> fwd, started |-> FALSE]

(* the except branch of generate *)
GenerateExcept(at, m, nrm, fwd) ==
    [ret |-> Ok(PStr("Error generating response: " \o m)), fault |-> Fault(at, m),
     norm |-> nrm, forwarded |-> fwd, started |-> FALSE]

(* the stream branch without thread.start(): the streamer is returned and no
   thread runs *)
StreamBranchNoThread(nrm, inputs, temp, kw) ==
    [ret |-> Ok(StreamerHandle), fault |-> NoFault, norm |-> nrm,
     forwarded |-> PDict(Update(inputs, StreamConfig(temp, kw))), started |-> FALSE]

(* the stream branch of generate: the streamer is created, the thread is
   started with the merged options and the streamer is returned at once *)
StreamBranch(nrm, inputs, temp, kw) ==
    [ret |-> Ok(StreamerHandle), fault |-> NoFault, norm |-> nrm,
     forwarded |-> PDict(Update(inputs, StreamConfig(temp, kw))), started |-> TRUE]

(* LocalModel.generate(messages, stream, **kwargs).  failAt names the step
   that raises ("none" when no step does) and m the text of its exception;
   outText is what the model generates and the tokenizer decodes. *)
generate(msgs, strm, kw, temp, hasTmpl, delegateFails, failAt, m, outText) ==
    LET nrm == format_messages(msgs, hasTmpl, delegateFails)
        inputs == Tokenize(nrm.text)
        cfg == GenerationConfig(temp, kw)
    IN  IF failAt = "format" THEN GenerateExcept("format", m, Nothing, Nothing)
        ELSE IF failAt = "tokenizer" THEN GenerateExcept("tokenizer", m, nrm, Nothing)
        ELSE IF strm
        THEN StreamBranch(nrm, inputs, temp, kw)
        ELSE IF (DOMAIN inputs) \cap (DOMAIN cfg) # {}
        THEN GenerateExcept("model", DupKwMsg, nrm, Nothing)
        ELSE IF failAt = "model"
        THEN GenerateExcept("model", m, nrm, PDict(Update(inputs, cfg)))
        ELSE IF failAt = "decode"
        THEN GenerateExcept("decode", m, nrm, PDict(Update(inputs, cfg)))
        ELSE [ret |-> Ok(PStr(outText)), fault |-> NoFault, norm |-> nrm,
              forwarded |-> PDict(Update(inputs, cfg)), started |-> FALSE]

(* generate replaced by another callable (ut.py: local_model.generate =
   mock_model.generate): it returns r, or raises when r is a Raise *)
ReplacedGenerate(r) ==
    [ret |-> r, fault |-> NoFault, norm |-> Nothing, forwarded |-> Nothing, started |-> FALSE]

----------------------------------------------------------------------------
(* Response Adapter: LocalModel.__call__ *)

(* ResponseObject with the content passed on as the error as well *)
ResponseObjectErrorSet(content) ==
    PObj("ResponseObject", "fresh",
         [content |-> content,
          model_output |-> content,
          step_number |-> PNone,
          tool_calls |-> PNone,
          observations |-> PNone,
          error |-> content,
          input_token_count |-> PInt(0),
          output_token_count |-> PInt(0),
          duration |-> PNone])

(* ResponseObject(content), in both of its definitions (the ActionStep
   subclass and the fallback class) *)
ResponseObject(content) ==
    PObj("ResponseObject", "fresh",
         [content |-> content,
          model_output |-> content,
          step_number |-> PNone,
          tool_calls |-> PNone,
          observations |-> PNone,
          error |-> PNone,
          input_token_count |-> PInt(0),
          output_token_count |-> PInt(0),
          duration |-> PNone])

(* setattr(obj, name, v) *)
SetAttr(obj, name, v) == [obj EXCEPT !.a = Update(obj.a, name :> v)]

HasAttr(obj, name) == obj.t = "obj" /\ name \in DOMAIN obj.a

(* the error envelope built by an except branch: ResponseObject(prefix + str(e))
   with error = str(e) *)
ErrorResponse(prefix, m) == SetAttr(ResponseObject(PStr(prefix \o m)), "error", PStr(m))

(* the outermost except without its handler: the exception propagates *)
OuterExceptPropagates(m) == [t |-> "raised", m |-> m]

(* the outermost except of __call__ *)
OuterExcept(m) == ErrorResponse("Error: ", m)

(* the wrapper returned for stream=True *)
StreamerWrapper(response) == [t |-> "wrapper", streamer |-> response]

(* the attributes the adopt branch adds when they are absent *)
BackFill(response) ==
    [response EXCEPT !.a = response.a @@
        [model_output |-> response.a["content"],
         step_number |-> PNone,
         tool_calls |-> PNone,
         observations |-> PNone,
         error |-> PNone,
         input_token_count |-> PInt(0),
         output_token_count |-> PInt(0),
         duration |-> PNone]]

SliceMsg == "slice(None, 100, None)"

(* the branch "elif hasattr(response, 'content')" *)
Adopt(response, smolagents) ==
    IF response.a["content"].t = "dict" THEN Raise(SliceMsg)
    ELSE IF smolagents /\ response.cls # "ActionStep"
    THEN Ok(ResponseObject(response.a["content"]))
    ELSE Ok(BackFill(response))

(* the body of the try of __call__ after generate returned response *)
Adapt(response, strm, smolagents) ==
    IF strm THEN Ok(StreamerWrapper(response))
    ELSE IF response.t = "str" THEN Ok(ResponseObject(response))
    ELSE IF HasAttr(response, "content") THEN Adopt(response, smolagents)
    ELSE Ok(ResponseObject(PStr(PyStr(response))))

(* __call__(messages, stream, **kwargs) given what generate did: g.ret is
   Ok(value) or Raise(message) *)
call(g, strm, smolagents) ==
    IF ~g.ret.ok THEN OuterExcept(g.ret.m)
    ELSE LET adapted == Adapt(g.ret.v, strm, smolagents)
         IN  IF adapted.ok THEN adapted.v ELSE OuterExcept(adapted.m)

----------------------------------------------------------------------------
(* The inputs and the environment of one call *)

EmptyBag == <<>>

(* conversations handed to __call__ *)
ConvPool ==
    { PStr("hello"),
      PStr(""),
      PDict([role |-> PStr("user"), content |-> PStr("hello")]),
      PDict([role |-> PStr("system")]),
      PDict([content |-> PList(<<PDict([type |-> PStr("text"), text |-> PStr("a")]), PStr("b")>>)]),
      PList(<<>>),
      PList(<<PDict([role |-> PStr("user"), content |-> PStr("hello")]),
              PDict([role |-> PStr("assistant"), content |-> PStr("Hi there!")])>>),
      PList(<<PStr("hi"), PDict([role |-> PNone, content |-> PInt(7)])>>),
      PNone }

(* the values a caller may give each generation option *)
OptionValues ==
    [stop_sequences |-> {PList(<<PStr("Observation:")>>)},
     temperature |-> {PInt(0), PInt(1)},
     max_new_tokens |-> {PInt(10)},
     do_sample |-> {PBool(TRUE), PBool(FALSE)},
     streamer |-> {PObj("TextIteratorStreamer", "caller", <<>>)},
     top_k |-> {PInt(50)},
     input_ids |-> {[t |-> "tensor", of |-> "caller"]}]

OptionKeys == DOMAIN OptionValues

KwargsPool ==
    UNION { { kw \in [ks -> UNION {OptionValues[k] : k \in ks}] :
                  \A k \in ks : kw[k] \in OptionValues[k] } :
            ks \in {x \in SUBSET OptionKeys : Cardinality(x) <= MaxOpts} }

ErrMsgs == {"OOM"}
OutTexts == {"Hello! How can I assist you today?"}
Fragments == {"Hello", " there"}

StopSignal == [t |-> "stop"]
RaiseItem(m) == [t |-> "raise", m |-> m]

NoStreamer == [kind |-> "none", items |-> <<>>, index |-> 0]

RECURSIVE SeqsUpTo(_, _)
SeqsUpTo(S, n) ==
    IF n = 0 THEN {<<>>}
    ELSE LET shorter == SeqsUpTo(S, n - 1)
         IN  shorter \cup {Append(q, x) : q \in shorter, x \in S}

(* the scripts of a replacement stream (ut.py MockStreamer), which may also
   raise when pulled *)
IterScripts == SeqsUpTo({PStr(f) : f \in Fragments} \cup {RaiseItem(m) : m \in ErrMsgs}, MaxFrags)

MockStreamerHandle == PObj("MockStreamer", "streamer", <<>>)

ActionStepFields ==
    [model_output |-> PStr("other"), step_number |-> PInt(1), tool_calls |-> PNone,
     observations |-> PNone, error |-> PNone, duration |-> PNone]

(* what a replaced generate may return on the non-streaming path *)
ReplacedResults(smolagents) ==
    { PStr(x) : x \in OutTexts }
    \cup { PInt(7) }
    \cup { PObj("Reply", "generated", [content |-> PStr("ok")]),
           PObj("Reply", "generated", [content |-> PStr("ok"), model_output |-> PStr("other")]),
           PObj("Reply", "generated", [content |-> PInt(7)]),
           PObj("Reply", "generated", [content |-> PDict(EmptyBag)]),
           PObj("MockActionStep", "generated",
                [model_output |-> PStr("ok"), step_number |-> PInt(1), tool_calls |-> PList(<<>>),
                 observations |-> PNone, error |-> PNone, content |-> PStr("ok")]) }
    \cup (IF smolagents
          THEN { PObj("ActionStep", "generated", Update(ActionStepFields, [content |-> PStr("ok")])) }
          ELSE {})

----------------------------------------------------------------------------
(* The tool get_local_time_from_ip (agent_fundamentals/app.py) *)

Whitespace == " \n\t"

RECURSIVE StripLeft(_)
StripLeft(s) ==
    IF Len(s) > 0 /\ CharIn(SubSeq(s, 1, 1), Whitespace) THEN StripLeft(Tail(s)) ELSE s

RECURSIVE StripRight(_)
StripRight(s) ==
    IF Len(s) > 0 /\ CharIn(SubSeq(s, Len(s), Len(s)), Whitespace)
    THEN StripRight(SubSeq(s, 1, Len(s) - 1)) ELSE s

(* str.strip *)
Strip(s) == StripRight(StripLeft(s))

(* dict.get(key, default) *)
DictGet(d, key, default) == IF key \in DOMAIN d THEN d[key] ELSE default

(* bool(v) of the values a timezone field takes *)
Truthy(v) ==
    CASE v.t = "none" -> FALSE
      [] v.t = "str" -> v.s # ""
      [] v.t = "int" -> v.n # 0
      [] OTHER -> TRUE

(* the time zones pytz knows *)
KnownTimezones == {"Australia/Sydney"}

ToolStart ==
    [pc |-> "ip", ipStatus |-> 0, ip |-> "", geoStatus |-> 0, geoData |-> Nothing,
     timezone |-> Nothing, log |-> <<>>, result |-> Nothing]

(* the function returns text *)
ToolReturn(t, text) == [t EXCEPT !.pc = "done", !.result = PStr(text)]

(* the outer except *)
ToolOuterExcept(t, m) == ToolReturn(t, "Error retrieving local time based on IP: " \o m)

(* requests.get of the IP service without the check of status_code *)
AfterIPRequestUnchecked(t, out) ==
    LET u == [t EXCEPT !.log = Append(@, "ip")]
    IN  IF out.k = "raise" THEN ToolOuterExcept(u, out.m)
        ELSE [u EXCEPT !.pc = "geo", !.ipStatus = out.status, !.ip = Strip(out.text)]

(* requests.get of the IP service, the check of status_code and text.strip() *)
AfterIPRequest(t, out) ==
    LET u == [t EXCEPT !.log = Append(@, "ip")]
    IN  IF out.k = "raise" THEN ToolOuterExcept(u, out.m)
        ELSE IF out.status # 200
        THEN ToolReturn([u EXCEPT !.ipStatus = out.status],
                        "Failed to retrieve IP address. Status code: " \o IntStr(out.status))
        ELSE [u EXCEPT !.pc = "geo", !.ipStatus = out.status, !.ip = Strip(out.text)]

(* requests.get of the geolocation service and the check of status_code *)
AfterGeoRequest(t, out) ==
    LET u == [t EXCEPT !.log = Append(@, "geo")]
    IN  IF out.k = "raise" THEN ToolOuterExcept(u, out.m)
        ELSE IF out.status # 200
        THEN ToolReturn([u EXCEPT !.geoStatus = out.status],
                        "Failed to retrieve geolocation data. Status code: " \o IntStr(out.status))
        ELSE [u EXCEPT !.pc = "json", !.geoStatus = out.status]

(* geo_response.json() and the check of its status field *)
AfterGeoJson(t, out) ==
    LET u == [t EXCEPT !.log = Append(@, "json")]
    IN  IF out.k = "raise" THEN ToolOuterExcept(u, out.m)
        ELSE IF out.v.t # "dict"
        THEN ToolOuterExcept([u EXCEPT !.geoData = out.v], "object has no attribute 'get'")
        ELSE IF DictGet(out.v.d, "status", PNone) # PStr("success")
        THEN ToolReturn([u EXCEPT !.geoData = out.v],
                        "Failed to retrieve geolocation data for IP " \o t.ip \o ". Error: "
                           \o PyStr(DictGet(out.v.d, "message", PStr("Unknown error"))))
        ELSE [u EXCEPT !.pc = "timezone", !.geoData = out.v]

(* timezone = geo_data.get('timezone') and the check that it is not empty *)
AfterTimezone(t) ==
    LET u == [t EXCEPT !.log = Append(@, "timezone"),
                       !.timezone = DictGet(t.geoData.d, "timezone", PNone)]
    IN  IF ~Truthy(u.timezone)
        THEN ToolReturn(u, "Could not determine timezone from IP " \o t.ip \o ". Location: "
                              \o PyStr(DictGet(t.geoData.d, "country", PStr("Unknown"))) \o ", "
                              \o PyStr(DictGet(t.geoData.d, "regionName", PStr("Unknown"))))
        ELSE [u EXCEPT !.pc = "resolve"]

(* pytz.timezone(timezone), now(tz).strftime and the inner except *)
AfterResolve(t, now) ==
    LET u == [t EXCEPT !.log = Append(@, "resolve")]
    IN  IF t.timezone.t # "str"
        THEN ToolReturn(u, "Error determining time for timezone '" \o PyStr(t.timezone)
                              \o "': object has no attribute 'upper'")
        ELSE IF t.timezone.s \notin KnownTimezones
        THEN ToolReturn(u, "Error determining time for timezone '" \o t.timezone.s
                              \o "': '" \o t.timezone.s \o "'")
        ELSE ToolReturn(u, "The current local time in "
                              \o PyStr(DictGet(t.geoData.d, "city", PStr("your location")))
                              \o " (" \o t.timezone.s \o ") is: " \o now)

(* what a request can do: raise, or answer with a status code and a text *)
HttpOutcomes ==
    {[k |-> "raise", m |-> "connection refused"]}
    \cup {[k |-> "response", status |-> c, text |-> x] :
             c \in {200, 404, 500}, x \in {"203.0.113.7\n", ""}}

GeoFieldOptions ==
    [status |-> {AbsentField, PStr("success"), PStr("fail")},
     message |-> {AbsentField, PStr("invalid query")},
     timezone |-> {AbsentField, PNone, PStr(""), PStr("Australia/Sydney"), PStr("Mars/Phobos"), PInt(5)},
     city |-> {AbsentField, PStr("Sydney")},
     country |-> {AbsentField, PStr("Australia")}]

(* the mapping that holds the fields that are present *)
GeoDict(f) == PDict([k \in {x \in DOMAIN f : f[x] # AbsentField} |-> f[k]])

(* what geo_response.json() can do: raise, or give a value *)
JsonOutcomes ==
    {[k |-> "raise", m |-> "Expecting value"], [k |-> "value", v |-> PList(<<>>)]}
    \cup {[k |-> "value", v |-> GeoDict(f)] :
             f \in [status : GeoFieldOptions.status, message : GeoFieldOptions.message,
                    timezone : GeoFieldOptions.timezone, city : GeoFieldOptions.city,
                    country : GeoFieldOptions.country]}

Clock == {"2026-01-01 09:30:00"}

----------------------------------------------------------------------------
(* The state machine *)

Init ==
    /\ pc = "start"
    /\ temperature \in {0, 1}
    /\ hasTemplate \in BOOLEAN
    /\ smol \in BOOLEAN
    /\ tmplFails = FALSE
    /\ messages = Nothing
    /\ conversation = Nothing
    /\ stream = FALSE
    /\ kwargs = EmptyBag
    /\ impl = "real"
    /\ norm = Nothing
    /\ genFault = NoFault
    /\ forwarded = Nothing
    /\ genRet = Nothing
    /\ ret = Nothing
    /\ streamer = NoStreamer
    /\ worker = "none"
    /\ yielded = <<>>
    /\ stops = 0
    /\ pullParity = 0
    /\ tool = ToolStart

(* the effects of one __call__ whose generate did g *)
Returned(msgs, strm, kw, im, df, g, script) ==
    /\ pc' = "returned"
    /\ tmplFails' = df
    /\ messages' = msgs
    /\ conversation' = IF im = "real" THEN ConversationAfter(msgs, hasTemplate) ELSE msgs
    /\ stream' = strm
    /\ kwargs' = kw
    /\ impl' = im
    /\ norm' = g.norm
    /\ genFault' = g.fault
    /\ forwarded' = g.forwarded
    /\ genRet' = g.ret
    /\ ret' = call(g, strm, smol)
    /\ streamer' = IF g.started THEN [kind |-> "queue", items |-> <<>>, index |-> 0]
                   ELSE IF g.ret.ok /\ g.ret.v = MockStreamerHandle
                   THEN [kind |-> "iter", items |-> script, index |-> 0]
                   ELSE NoStreamer
    /\ worker' = IF g.started THEN "running" ELSE "none"
    /\ UNCHANGED <<temperature, hasTemplate, smol, yielded, stops, pullParity, tool>>

(* __call__ on the instance as constructed *)
Call ==
    /\ pc = "start"
    /\ \E msgs \in ConvPool, strm \in BOOLEAN, kw \in KwargsPool,
          delegateFails \in BOOLEAN, m \in ErrMsgs, outText \in OutTexts,
          failAt \in {"none", "format", "tokenizer", "model", "decode"} :
          /\ strm => failAt \in {"none", "format", "tokenizer"}
          /\ delegateFails => hasTemplate /\ msgs.t # "str" /\ failAt # "format"
          /\ Returned(msgs, strm, kw, "real", delegateFails,
                      generate(msgs, strm, kw, temperature, hasTemplate, delegateFails,
                               failAt, m, outText),
                      <<>>)

(* __call__ on an instance whose generate was replaced (ut.py) *)
CallReplaced ==
    /\ pc = "start"
    /\ \/ \E r \in ReplacedResults(smol) :
             Returned(PStr("hello"), FALSE, EmptyBag, "replaced", FALSE, ReplacedGenerate(Ok(r)), <<>>)
       \/ \E script \in IterScripts :
             Returned(PStr("hello"), TRUE, EmptyBag, "replaced", FALSE,
                      ReplacedGenerate(Ok(MockStreamerHandle)), script)
       \/ \E strm \in BOOLEAN, m \in ErrMsgs :
             Returned(PStr("hello"), strm, EmptyBag, "replaced", FALSE, ReplacedGenerate(Raise(m)), <<>>)

(* the generation thread puts one decoded fragment on the streamer's queue *)
WorkerPut ==
    /\ worker = "running"
    /\ Len(streamer.items) < MaxFrags
    /\ \E f \in Fragments : streamer' = [streamer EXCEPT !.items = Append(@, PStr(f))]
    /\ UNCHANGED <<pc, temperature, hasTemplate, tmplFails, messages, conversation, stream, kwargs, impl, smol, norm,
                   genFault, forwarded, genRet, ret, worker, yielded, stops, pullParity, tool>>

(* the generation thread finishes: the streamer's end() puts the stop signal *)
WorkerEnd ==
    /\ worker = "running"
    /\ streamer' = [streamer EXCEPT !.items = Append(@, StopSignal)]
    /\ worker' = "done"
    /\ UNCHANGED <<pc, temperature, hasTemplate, tmplFails, messages, conversation, stream, kwargs, impl, smol, norm,
                   genFault, forwarded, genRet, ret, yielded, stops, pullParity, tool>>

(* self.model.generate raises inside the thread: the thread dies and nothing
   more is put on the queue *)
WorkerFail ==
    /\ worker = "running"
    /\ worker' = "failed"
    /\ UNCHANGED <<pc, temperature, hasTemplate, tmplFails, messages, conversation, stream, kwargs, impl, smol, norm,
                   genFault, forwarded, genRet, ret, streamer, yielded, stops, pullParity, tool>>

TypeName(v) ==
    CASE v.t = "str" -> "str"
      [] v.t = "int" -> "int"
      [] v.t = "none" -> "NoneType"
      [] OTHER -> "object"

(* next(self.streamer) inside StreamerWrapper.__next__: a chunk, the end of
   the stream, or another exception *)
NextChunk(underlying, st) ==
    IF underlying = StreamerHandle
    THEN IF st.items[st.index + 1] = StopSignal THEN [k |-> "stop"]
         ELSE [k |-> "chunk", v |-> st.items[st.index + 1]]
    ELSE IF underlying = MockStreamerHandle
    THEN IF st.index >= Len(st.items) THEN [k |-> "stop"]
         ELSE IF st.items[st.index + 1].t = "raise"
         THEN [k |-> "raise", m |-> st.items[st.index + 1].m]
         ELSE [k |-> "chunk", v |-> st.items[st.index + 1]]
    ELSE [k |-> "raise", m |-> "'" \o TypeName(underlying) \o "' object is not an iterator"]

(* __next__ with the general handler first: the end of the stream is turned
   into an error envelope as well *)
WrapperNextCatchAll(res) ==
    IF res.k = "chunk" THEN [k |-> "yield", v |-> ResponseObject(res.v)]
    ELSE IF res.k = "stop" THEN [k |-> "yield", v |-> ErrorResponse("Error in stream: ", "")]
    ELSE [k |-> "yield", v |-> ErrorResponse("Error in stream: ", res.m)]

(* __next__ that ends the sequence when next(self.streamer) raises *)
WrapperNextStopOnError(res) ==
    IF res.k = "chunk" THEN [k |-> "yield", v |-> ResponseObject(res.v)]
    ELSE [k |-> "stop"]

(* StreamerWrapper.__next__ given the outcome of next(self.streamer) *)
WrapperNext(res) ==
    IF res.k = "chunk" THEN [k |-> "yield", v |-> ResponseObject(res.v)]
    ELSE IF res.k = "stop" THEN [k |-> "stop"]
    ELSE [k |-> "yield", v |-> ErrorResponse("Error in stream: ", res.m)]

(* a next() that starts the stream over once it is exhausted *)
AdvanceRestarting(underlying, st) ==
    IF underlying \in {StreamerHandle, MockStreamerHandle} /\ st.index < Len(st.items)
    THEN [st EXCEPT !.index = @ + 1]
    ELSE [st EXCEPT !.index = 0]

(* a next() that leaves the fragment on the queue *)
AdvanceNotConsuming(underlying, st) == st

(* the underlying stream after one next() *)
Advance(underlying, st) ==
    IF underlying \in {StreamerHandle, MockStreamerHandle} /\ st.index < Len(st.items)
    THEN [st EXCEPT !.index = @ + 1]
    ELSE st

(* StreamerWrapper.__iter__ *)
WrapperIter(w) == w

(* the caller pulls once from the wrapper; a pull on an empty queue blocks *)
Pull ==
    /\ pc = "returned"
    /\ ret.t = "wrapper"
    /\ ret.streamer = StreamerHandle => streamer.index < Len(streamer.items)
    /\ LET out == WrapperNext(NextChunk(ret.streamer, streamer))
       IN  /\ yielded' = IF out.k = "yield" /\ Len(yielded) < MaxYield
                         THEN Append(yielded, out.v) ELSE yielded
           /\ stops' = IF out.k = "stop" /\ stops < MaxStops THEN stops + 1 ELSE stops
    /\ streamer' = Advance(ret.streamer, streamer)
    /\ pullParity' = 1 - pullParity
    /\ UNCHANGED <<pc, temperature, hasTemplate, tmplFails, messages, conversation, stream, kwargs, impl, smol, norm,
                   genFault, forwarded, genRet, ret, worker, tool>>

Next ==
    \/ Call
    \/ CallReplaced
    \/ WorkerPut
    \/ WorkerEnd
    \/ WorkerFail
    \/ Pull

Spec == Init /\ [][Next]_vars

(* the caller keeps pulling and the generation thread keeps running *)
LiveSpec == Spec /\ WF_vars(Pull) /\ WF_vars(WorkerPut \/ WorkerEnd \/ WorkerFail)

----------------------------------------------------------------------------
(* get_local_time_from_ip called once, one action per step *)

modelVars == <<pc, temperature, hasTemplate, tmplFails, messages, conversation, stream, kwargs,
               impl, smol, norm, genFault, forwarded, genRet, ret, streamer, worker, yielded,
               stops, pullParity>>

GetIP ==
    /\ tool.pc = "ip"
    /\ \E out \in HttpOutcomes : tool' = AfterIPRequest(tool, out)
    /\ UNCHANGED modelVars

GetGeo ==
    /\ tool.pc = "geo"
    /\ \E out \in HttpOutcomes : tool' = AfterGeoRequest(tool, out)
    /\ UNCHANGED modelVars

ParseGeo ==
    /\ tool.pc = "json"
    /\ \E out \in JsonOutcomes : tool' = AfterGeoJson(tool, out)
    /\ UNCHANGED modelVars

ReadTimezone ==
    /\ tool.pc = "timezone"
    /\ tool' = AfterTimezone(tool)
    /\ UNCHANGED modelVars

ResolveTime ==
    /\ tool.pc = "resolve"
    /\ \E now \in Clock : tool' = AfterResolve(tool, now)
    /\ UNCHANGED modelVars

ToolNext ==
    \/ GetIP
    \/ GetGeo
    \/ ParseGeo
    \/ ReadTimezone
    \/ ResolveTime

ToolSpec == Init /\ [][ToolNext]_vars

----------------------------------------------------------------------------
(* _format_messages called on its own, over a larger set of conversations *)

RoleOptions == {AbsentField, PStr("user"), PStr("aSSistant"), PNone}

ContentOptions ==
    { AbsentField,
      PStr("hello"),
      PInt(7),
      PList(<<PDict([type |-> PStr("text"), text |-> PStr("a")]), PStr("b")>>),
      PList(<<PInt(7), PDict([type |-> PStr("image")])>>),
      PList(<<PDict([text |-> PInt(7)])>>) }

(* a message mapping with the given role and content, either of them absent *)
MakeMessage(r, c) ==
    PDict((IF r = AbsentField THEN EmptyBag ELSE [role |-> r])
          @@ (IF c = AbsentField THEN EmptyBag ELSE [content |-> c]))

MessageDicts == {MakeMessage(r, c) : r \in RoleOptions, c \in ContentOptions}

(* the elements of a sequence of messages: mappings, bare strings, other values *)
MessagePool == MessageDicts \cup {PStr("hi"), PInt(7)}

NormPool ==
    {PStr("hello"), PStr(""), PNone}
    \cup MessageDicts
    \cup {PList(q) : q \in SeqsUpTo(MessagePool, MaxMsgs)}

(* _format_messages(messages) on the instance as constructed *)
Normalize ==
    /\ pc = "start"
    /\ \E msgs \in NormPool, delegateFails \in BOOLEAN :
          /\ delegateFails => hasTemplate /\ msgs.t # "str"
          /\ pc' = "normalized"
          /\ messages' = msgs
          /\ conversation' = ConversationAfter(msgs, hasTemplate)
          /\ tmplFails' = delegateFails
          /\ norm' = format_messages(msgs, hasTemplate, delegateFails)
    /\ UNCHANGED <<temperature, hasTemplate, stream, kwargs, impl, smol, genFault, forwarded,
                   genRet, ret, streamer, worker, yielded, stops, pullParity, tool>>

NormNext == Normalize

NormSpec == Init /\ [][NormNext]_vars

----------------------------------------------------------------------------
(* Properties *)

IsEnvelope(v) == v.t = "obj" /\ {"content", "model_output", "error"} \subseteq DOMAIN v.a

(* C1: __call__ never propagates an exception: whatever the conversation, the
   stream flag, the options and the failures of the tokenizer, the model or
   the adaptation code, the call returns an envelope or a stream wrapper. *)
C1_CallNeverRaises ==
    pc = "returned" => IsEnvelope(ret) \/ ret.t = "wrapper"

(* an exception reached the outermost boundary of __call__ and an error
   envelope came back *)
C1_Witness ==
    /\ pc = "returned"
    /\ ~genRet.ok
    /\ IsEnvelope(ret)
    /\ ret.a["error"] = PStr(genRet.m)

(* C2: every envelope handed to the caller has content == model_output: the
   non-streaming result, every envelope the wrapper yields, every error
   envelope and every adopted generation result. *)
C2_ContentIsModelOutput ==
    /\ pc = "returned" /\ ret.t = "obj" => ret.a["content"] = ret.a["model_output"]
    /\ \A i \in 1..Len(yielded) : yielded[i].a["content"] = yielded[i].a["model_output"]

(* C3: a string r returned by generation on the non-streaming path comes back
   as an envelope with content == model_output == r, error None and both
   token counts 0. *)
C3_StringRoundTrip ==
    pc = "returned" /\ ~stream /\ genRet.ok /\ genRet.v.t = "str" =>
        /\ IsEnvelope(ret)
        /\ ret.a["content"] = genRet.v
        /\ ret.a["model_output"] = genRet.v
        /\ ret.a["error"] = PNone
        /\ ret.a["input_token_count"] = PInt(0)
        /\ ret.a["output_token_count"] = PInt(0)

(* the model generated a text and __call__ returned it *)
C3_Witness ==
    /\ pc = "returned"
    /\ ~stream
    /\ impl = "real"
    /\ genFault = NoFault
    /\ ret.a["content"] \in {PStr(x) : x \in OutTexts}

(* the underlying stream is a fragment sequence that raises nothing but
   end-of-stream *)
CleanStream ==
    /\ pc = "returned"
    /\ ret.t = "wrapper"
    /\ ret.streamer \in {StreamerHandle, MockStreamerHandle}
    /\ \A i \in 1..Len(streamer.items) : streamer.items[i].t # "raise"

IsFragment(item) == item.t = "str"

(* the fragments of the underlying stream, and those already consumed *)
AllFragments == SelectSeq(streamer.items, IsFragment)
ConsumedFragments == SelectSeq(SubSeq(streamer.items, 1, streamer.index), IsFragment)

(* the envelopes yielded so far carry the consumed fragments, in order, and
   end-of-sequence is signalled only after all n fragments *)
C4_Delivered ==
    CleanStream =>
        /\ Len(yielded) = Len(ConsumedFragments)
        /\ \A i \in 1..Len(yielded) :
              /\ yielded[i].a["content"] = ConsumedFragments[i]
              /\ yielded[i].a["model_output"] = ConsumedFragments[i]
              /\ yielded[i].a["error"] = PNone
        /\ stops > 0 => ConsumedFragments = AllFragments /\ worker # "running"

(* one pull consumes one fragment and yields its envelope, or, when no
   fragment is left, signals end-of-sequence and yields nothing *)
C4_OnePull ==
    CleanStream /\ Pull =>
        IF Len(ConsumedFragments) < Len(AllFragments)
        THEN /\ streamer'.index = streamer.index + 1
             /\ yielded' = Append(yielded, ResponseObject(streamer.items[streamer.index + 1]))
             /\ stops' = stops
        ELSE /\ yielded' = yielded
             /\ stops' = IF stops < MaxStops THEN stops + 1 ELSE stops

(* C4: over an underlying fragment sequence f1..fn that raises nothing but
   end-of-stream, the wrapper consumes one fragment per pull, yields exactly
   n envelopes with content and model_output f1..fn in order, and the pull
   after the n-th signals exhaustion. *)
C4_StreamDelivery == [](C4_Delivered) /\ [][C4_OnePull]_vars

(* the two fragments of a stream were delivered in order and the third pull
   signalled exhaustion *)
C4_Witness ==
    /\ CleanStream
    /\ Len(AllFragments) = 2
    /\ Len(yielded) = 2
    /\ yielded[1].a["content"] = PStr("Hello")
    /\ yielded[2].a["content"] = PStr(" there")
    /\ stops = 1

(* the generation thread died before it ended the stream: a pull on the
   drained queue never returns *)
PullNeverReturns ==
    /\ ret.t = "wrapper"
    /\ ret.streamer = StreamerHandle
    /\ worker = "failed"
    /\ streamer.index = Len(streamer.items)

(* C5: the wrapper of every streaming call is a finite sequence: a caller
   that keeps pulling (every pull returning) reaches end-of-sequence after
   finitely many pulls, also when the generation setup failed or the
   underlying stream raises. *)
C5_StreamIsFinite ==
    (pc = "returned" /\ ret.t = "wrapper") ~> (stops > 0 \/ PullNeverReturns)

(* C6: when message normalization raises an exception e inside a top-level
   call, the call returns an envelope whose content starts with "Error: "
   and whose error field is str(e). *)
C6_NormalizationErrorEnvelope ==
    pc = "returned" /\ genFault.at = "format" =>
        /\ IsEnvelope(ret)
        /\ ret.a["content"].t = "str"
        /\ StartsWith(ret.a["content"].s, "Error: ")
        /\ ret.a["error"] = PStr(genFault.m)

(* C7: when tokenization or model generation raises with message m on the
   non-streaming path, generate returns "Error generating response: " + m
   without raising and __call__ returns a normal envelope whose content is
   that text. *)
C7_GenerationErrorText ==
    pc = "returned" /\ ~stream /\ genFault.at \in {"tokenizer", "model", "decode"} =>
        /\ genRet = Ok(PStr("Error generating response: " \o genFault.m))
        /\ IsEnvelope(ret)
        /\ ret.cls = "ResponseObject"
        /\ ret.a["content"] = genRet.v
        /\ ret.a["model_output"] = genRet.v

(* the model raised OOM and the envelope carries the error text *)
C7_Witness ==
    /\ pc = "returned"
    /\ ~stream
    /\ genFault = Fault("model", "OOM")
    /\ ret.a["content"] = PStr("Error generating response: OOM")

(* C8: the option bag passed to the model, directly or as the arguments of
   the worker thread, never has a stop_sequences key. *)
C8_NoStopSequencesForwarded ==
    forwarded # Nothing => "stop_sequences" \notin DOMAIN forwarded.d

(* the caller passed stop_sequences to a streaming call and the thread was
   started with an option bag *)
C8_Witness ==
    /\ pc = "returned"
    /\ stream
    /\ "stop_sequences" \in DOMAIN kwargs
    /\ worker = "running"
    /\ forwarded # Nothing

(* the defaults the caller did not name keep their default values *)
DefaultsForwarded ==
    \A k \in (DOMAIN DefaultConfig(temperature)) \ (DOMAIN kwargs) :
        /\ k \in DOMAIN forwarded.d
        /\ forwarded.d[k] = DefaultConfig(temperature)[k]

(* the caller's options of the set keys are forwarded with the caller's values *)
CallerOptionsForwarded(keys) ==
    \A k \in keys : k \in DOMAIN forwarded.d /\ forwarded.d[k] = kwargs[k]

(* C9 as stated: every caller option other than stop_sequences is forwarded
   with exactly the caller's value, replacing the default of the same name,
   and every default the caller did not name is forwarded unchanged. *)
C9_Original ==
    forwarded # Nothing =>
        /\ CallerOptionsForwarded((DOMAIN kwargs) \ {"stop_sequences"})
        /\ DefaultsForwarded

(* C9 amended: every caller option other than stop_sequences and, on the
   streaming path, other than streamer (which generate always sets to the
   stream it returns) is forwarded with exactly the caller's value, replacing
   the default of the same name, and every default the caller did not name
   is forwarded unchanged. *)
C9_OptionsForwarded ==
    forwarded # Nothing =>
        /\ CallerOptionsForwarded((DOMAIN kwargs) \
               ({"stop_sequences"} \cup (IF stream THEN {"streamer"} ELSE {})))
        /\ DefaultsForwarded

(* the caller overrode the temperature and added an option of its own *)
C9_Witness ==
    /\ pc = "returned"
    /\ forwarded # Nothing
    /\ DOMAIN kwargs = {"temperature", "top_k"}
    /\ kwargs["temperature"] # PInt(temperature)
    /\ forwarded.d["temperature"] = kwargs["temperature"]
    /\ forwarded.d["top_k"] = PInt(50)

(* C10: for every string input s, _format_messages returns exactly
   "User: " + s + "\nAssistant: ", with or without a chat-template delegate. *)
C10_StringFraming ==
    pc = "returned" /\ messages.t = "str" /\ norm # Nothing =>
        norm.text = "User: " \o messages.s \o "\nAssistant: "

(* a string was normalized on an instance without a chat-template delegate *)
C10_Witness ==
    /\ pc = "returned"
    /\ ~hasTemplate
    /\ messages = PStr("hello")
    /\ norm # Nothing
    /\ norm.text = "User: hello\nAssistant: "


----------------------------------------------------------------------------
(* Properties of _format_messages called on its own *)

(* the messages of a conversation, a single message standing for itself *)
MessagesOf(conv) ==
    IF conv.t = "dict" THEN <<conv>> ELSE IF conv.t = "list" THEN conv.items ELSE <<>>

LacksContent(m) == m.t = "dict" /\ "content" \notin DOMAIN m.d

HasFragmentList(m) ==
    m.t = "dict" /\ "content" \in DOMAIN m.d /\ m.d["content"].t = "list"

(* a message that is a string, or a mapping whose role is absent or a string *)
RoleOk(m) ==
    \/ m.t = "str"
    \/ m.t = "dict" /\ ("role" \in DOMAIN m.d => m.d["role"].t = "str")

(* the piece a fragment stands for *)
PieceOf(item) ==
    IF item.t = "dict" /\ "text" \in DOMAIN item.d THEN PyStr(item.d["text"]) ELSE PyStr(item)

RECURSIVE JoinedPieces(_)
JoinedPieces(items) ==
    IF Len(items) = 0 THEN ""
    ELSE IF Len(items) = 1 THEN PieceOf(items[1])
    ELSE PieceOf(items[1]) \o "\n" \o JoinedPieces(Tail(items))

(* the content of a message as a plain string *)
ExpectedContent(m) ==
    IF m.t = "str" THEN m.s
    ELSE IF LacksContent(m) THEN ""
    ELSE IF HasFragmentList(m) THEN JoinedPieces(m.d["content"].items)
    ELSE PyStr(m.d["content"])

(* str.capitalize of the roles in use, written out *)
ExpectedRole(m) ==
    IF m.t = "str" \/ "role" \notin DOMAIN m.d THEN "User"
    ELSE CASE m.d["role"].s = "user" -> "User"
           [] m.d["role"].s = "aSSistant" -> "Assistant"
           [] m.d["role"].s = "system" -> "System"
           [] m.d["role"].s = "assistant" -> "Assistant"

RECURSIVE ExpectedLines(_)
ExpectedLines(ms) ==
    IF Len(ms) = 0 THEN ""
    ELSE ExpectedRole(ms[1]) \o ": " \o ExpectedContent(ms[1]) \o "\n" \o ExpectedLines(Tail(ms))

(* C11: for every message whose content is a sequence of fragments, the
   resolved content is the pieces of the fragments (the text field of a mapping
   that has one, a string fragment itself, the string conversion of anything
   else) joined with newlines in the order of the fragments: it is the content
   handed to the chat template on the template path and the content of the
   message's line on the fallback path *)
C11_FragmentsJoined ==
    ( /\ pc = "normalized"
      /\ messages.t \in {"dict", "list"}
      /\ \A i \in 1..Len(MessagesOf(messages)) : RoleOk(MessagesOf(messages)[i])
      /\ \E i \in 1..Len(MessagesOf(messages)) : HasFragmentList(MessagesOf(messages)[i]) )
    => /\ norm.path \in {"template", "fallback"}
       /\ norm.path = "template" =>
             \A i \in 1..Len(MessagesOf(messages)) :
                HasFragmentList(MessagesOf(messages)[i]) =>
                   norm.processed.items[i].d["content"]
                      = PStr(JoinedPieces(MessagesOf(messages)[i].d["content"].items))
       /\ norm.path = "fallback" =>
             norm.text = ExpectedLines(MessagesOf(messages)) \o "Assistant: "

(* a conversation with an empty content in place of every missing content *)
WithEmptyContent(m) ==
    IF LacksContent(m) THEN PDict(Update(m.d, [content |-> PStr("")])) ELSE m

FillContent(conv) ==
    IF conv.t = "dict" THEN WithEmptyContent(conv)
    ELSE IF conv.t = "list"
         THEN PList([i \in 1..Len(conv.items) |-> WithEmptyContent(conv.items[i])])
    ELSE conv

(* C12: a message without a content field is normalized as the same message
   with the empty string as content, on the chat-template path (the processed
   message carries content "") and on the fallback path, and the normalizer
   returns a prompt *)
C12_MissingContentIsEmpty ==
    ( /\ pc = "normalized"
      /\ \E i \in 1..Len(MessagesOf(messages)) : LacksContent(MessagesOf(messages)[i]) )
    => /\ norm = format_messages(FillContent(messages), hasTemplate, tmplFails)
       /\ norm.path \in {"template", "fallback", "default"}
       /\ norm.processed # Nothing =>
             \A i \in 1..Len(MessagesOf(messages)) :
                LacksContent(MessagesOf(messages)[i]) =>
                   norm.processed.items[i].d["content"] = PStr("")
       /\ norm.path = "fallback" =>
             norm.text = ExpectedLines(MessagesOf(messages)) \o "Assistant: "

C12_Witness ==
    /\ pc = "normalized"
    /\ hasTemplate
    /\ norm.path = "template"
    /\ Len(MessagesOf(messages)) = 2
    /\ LacksContent(MessagesOf(messages)[2])
    /\ norm.processed.items[2].d["content"] = PStr("")

----------------------------------------------------------------------------
(* Properties of the generation thread and its consumer *)

(* generate went through its stream branch and returned the streamer *)
HandleReturned == impl = "real" /\ stream /\ genRet = Ok(StreamerHandle)

C13_WorkerPerRequest ==
    /\ HandleReturned => worker # "none"
    /\ worker # "none" => HandleReturned
    /\ ~stream => worker = "none"

(* the step on which a streaming generate returns its streamer: the thread has
   been started and has neither produced nor finished anything *)
C13_ReturnsAtOnce ==
    (pc = "start" /\ pc' = "returned" /\ stream' /\ impl' = "real"
        /\ genRet' = Ok(StreamerHandle))
    => /\ worker' = "running"
       /\ streamer' = [kind |-> "queue", items |-> <<>>, index |-> 0]
       /\ yielded' = <<>>
       /\ ret' = StreamerWrapper(StreamerHandle)

(* C13: a streaming generate that reaches its stream branch returns the
   streamer while its thread is still running and has put nothing on the
   queue; a thread exists exactly for the requests whose generate returned a
   streamer, and never for a non-streaming request *)
C13_StreamingReturnsImmediately == [](C13_WorkerPerRequest) /\ [][C13_ReturnsAtOnce]_vars

C13_Witness ==
    /\ pc = "returned"
    /\ HandleReturned
    /\ ret = StreamerWrapper(StreamerHandle)
    /\ worker = "running"
    /\ streamer.items = <<>>
    /\ yielded = <<>>

(* the contents received so far are the first fragments the thread produced,
   one envelope per consumed fragment, and end-of-sequence is received only
   after the thread finished and every fragment was received *)
C14_ReceivedIsPrefix ==
    HandleReturned =>
        /\ Len(yielded) <= Len(AllFragments)
        /\ \A i \in 1..Len(yielded) : yielded[i].a["content"] = AllFragments[i]
        /\ Len(yielded) = Len(ConsumedFragments)
        /\ stops > 0 => worker = "done" /\ Len(yielded) = Len(AllFragments)

C14_AllReceived ==
    /\ worker = "done"
    /\ Len(yielded) = Len(AllFragments)
    /\ \A i \in 1..Len(yielded) : yielded[i].a["content"] = AllFragments[i]
    /\ stops > 0

(* C14: in every interleaving of the generation thread and the caller of one
   stream, the envelope contents received are a prefix of the fragments
   produced, and after the thread has finished a caller that keeps pulling
   receives every fragment and then end-of-sequence *)
C14_ProducerConsumer == [](C14_ReceivedIsPrefix) /\ ((worker = "done") ~> C14_AllReceived)

C14_Witness ==
    /\ HandleReturned
    /\ worker = "done"
    /\ streamer.items = <<PStr("Hello"), PStr(" there"), StopSignal>>
    /\ Len(yielded) = 2
    /\ yielded[1].a["content"] = PStr("Hello")
    /\ yielded[2].a["content"] = PStr(" there")
    /\ stops = 1

ErrorEnvelopeReceived ==
    \E i \in 1..Len(yielded) : yielded[i].a["error"] # PNone

(* C15: when self.model.generate raises inside the generation thread, after
   the streamer was returned, a caller that keeps pulling eventually receives
   an envelope whose error field is set *)
C15_WorkerFailureSurfaced == (worker = "failed") ~> ErrorEnvelopeReceived

IsGenerationErrorText(v) ==
    v.t = "str" /\ StartsWith(v.s, "Error generating response: ")

(* C16: generate converts an exception into the text "Error generating
   response: ..." on the non-streaming path only: with stream=True it never
   returns such a text in place of the fragment sequence *)
C16_NoErrorTextWhenStreaming ==
    (pc = "returned" /\ impl = "real" /\ stream) =>
        ~(genRet.ok /\ IsGenerationErrorText(genRet.v))

----------------------------------------------------------------------------
(* Properties of the fallback of _format_messages *)

(* the pre-processing for the chat template raises on this conversation *)
PreprocessingRaises ==
    \/ messages.t # "list" /\ messages.t # "dict"
    \/ \E i \in 1..Len(MessagesOf(messages)) :
          LET m == MessagesOf(messages)[i]
          IN  \/ m.t \notin {"str", "dict"}
              \/ /\ HasFragmentList(m)
                 /\ \E j \in 1..Len(m.d["content"].items) :
                       LET it == m.d["content"].items[j]
                       IN  it.t = "dict" /\ "text" \in DOMAIN it.d /\ it.d["text"].t # "str"

(* C17: when tokenizer.apply_chat_template or the pre-processing done for it
   raises, _format_messages returns a prompt, and it is exactly the prompt the
   simple format gives for the same conversation (the one returned when the
   tokenizer has no chat template) *)
C17_TemplateFailureFallsBack ==
    (pc = "normalized" /\ hasTemplate /\ messages.t # "str") =>
        /\ (tmplFails \/ PreprocessingRaises) => norm.path # "template"
        /\ norm.path # "template" =>
              /\ norm.path = format_messages(messages, FALSE, FALSE).path
              /\ norm.text = format_messages(messages, FALSE, FALSE).text

(* the delegate raised on two well-formed messages and the simple format
   produced the prompt *)
C17_Witness ==
    /\ pc = "normalized"
    /\ hasTemplate
    /\ tmplFails
    /\ Len(MessagesOf(messages)) = 2
    /\ norm.processed # Nothing
    /\ norm.path = "fallback"
    /\ norm.text = "Assistant: hello\nUser: hi\nAssistant: "

(* every message is a string or a mapping whose role is absent or a string
   and whose content resolves *)
FallbackAssembles ==
    /\ messages.t \in {"dict", "list"}
    /\ \A i \in 1..Len(MessagesOf(messages)) : RoleOk(MessagesOf(messages)[i])
    /\ ~PreprocessingRaises

(* C18: the simple format of messages m1..mn is the concatenation, in order,
   of one line "<role capitalized as by str.capitalize>: <resolved content>\n"
   per message followed by "Assistant: ", and "Assistant: " alone for the
   empty sequence *)
C18_FallbackAssembly ==
    (pc = "normalized" /\ messages.t # "str" /\ (~hasTemplate \/ tmplFails)) =>
        /\ norm.path = "fallback" =>
              norm.text = ExpectedLines(MessagesOf(messages)) \o "Assistant: "
        /\ FallbackAssembles => norm.path = "fallback"
        /\ messages = PList(<<>>) => norm.text = "Assistant: "

C18_Witness ==
    /\ pc = "normalized"
    /\ ~hasTemplate
    /\ Len(MessagesOf(messages)) = 2
    /\ norm.path = "fallback"
    /\ norm.text = "Assistant: a\nb\nUser: 7\nAssistant: "

(* the simple format raises while it handles this message *)
FallbackRaisesAt(m) ==
    \/ m.t \notin {"str", "dict"}
    \/ m.t = "dict" /\ "role" \in DOMAIN m.d /\ m.d["role"].t # "str"
    \/ /\ HasFragmentList(m)
       /\ \E j \in 1..Len(m.d["content"].items) :
             LET it == m.d["content"].items[j]
             IN  it.t = "dict" /\ "text" \in DOMAIN it.d /\ it.d["text"].t # "str"

FallbackRaises ==
    \/ messages.t \notin {"str", "dict", "list"}
    \/ \E i \in 1..Len(MessagesOf(messages)) : FallbackRaisesAt(MessagesOf(messages)[i])

(* C19: when the simple format raises at some message, _format_messages
   returns exactly "User: Please help me.\nAssistant: ": no line of the
   messages handled before the failure is kept and no exception leaves *)
C19_SafeDefaultPrompt ==
    (pc = "normalized" /\ messages.t # "str" /\ norm.path # "template" /\ FallbackRaises) =>
        /\ norm.path = "default"
        /\ norm.text = "User: Please help me.\nAssistant: "

(* the first message was assembled, the second one raised *)
C19_Witness ==
    /\ pc = "normalized"
    /\ ~hasTemplate
    /\ Len(MessagesOf(messages)) = 2
    /\ ~FallbackRaisesAt(MessagesOf(messages)[1])
    /\ FallbackRaisesAt(MessagesOf(messages)[2])
    /\ norm.text = "User: Please help me.\nAssistant: "

(* sub occurs in s *)
Contains(s, sub) ==
    \E k \in 0..(Len(s) - Len(sub)) : SubSeq(s, k + 1, k + Len(sub)) = sub

(* the values of unknown type in the content of a message: a content that is
   neither a string nor a list, a fragment that is neither a string nor a
   mapping, the text of a mapping when it is not a string *)
UnknownValues(m) ==
    IF m.t # "dict" \/ "content" \notin DOMAIN m.d THEN {}
    ELSE IF m.d["content"].t = "str" THEN {}
    ELSE IF m.d["content"].t # "list" THEN {m.d["content"]}
    ELSE LET items == m.d["content"].items
         IN  {items[j] : j \in {k \in 1..Len(items) : items[k].t \notin {"str", "dict"}}}
             \cup {items[j].d["text"] :
                     j \in {k \in 1..Len(items) :
                              /\ items[k].t = "dict"
                              /\ "text" \in DOMAIN items[k].d
                              /\ items[k].d["text"].t # "str"}}

HasUnknownValue ==
    \E i \in 1..Len(MessagesOf(messages)) : UnknownValues(MessagesOf(messages)[i]) # {}

(* C20: content of an unknown type is coerced with str at every level and
   never rejected: for messages with well-formed roles, the prompt contains
   the string conversion of every such value and is not the safe default
   prompt put in place of the conversation *)
C20_UnknownContentCoerced ==
    ( /\ pc = "normalized"
      /\ messages.t \in {"dict", "list"}
      /\ \A i \in 1..Len(MessagesOf(messages)) : RoleOk(MessagesOf(messages)[i])
      /\ HasUnknownValue )
    => /\ norm.path # "default"
       /\ \A i \in 1..Len(MessagesOf(messages)) :
             \A v \in UnknownValues(MessagesOf(messages)[i]) : Contains(norm.text, PyStr(v))


----------------------------------------------------------------------------
(* Further properties of _format_messages *)

LacksRole(m) == m.t = "dict" /\ "role" \notin DOMAIN m.d

(* C21: a message without a role field is normalized with the role "user":
   its line of the simple format starts with "User: " and the message handed
   to tokenizer.apply_chat_template for it has role "user" *)
C21_MissingRoleIsUser ==
    ( /\ pc = "normalized"
      /\ \E i \in 1..Len(MessagesOf(messages)) : LacksRole(MessagesOf(messages)[i]) )
    => /\ norm.path = "fallback" =>
             norm.text = ExpectedLines(MessagesOf(messages)) \o "Assistant: "
       /\ norm.processed # Nothing =>
             \A i \in 1..Len(MessagesOf(messages)) :
                LacksRole(MessagesOf(messages)[i]) =>
                   /\ "role" \in DOMAIN norm.processed.items[i].d
                   /\ norm.processed.items[i].d["role"] = PStr("user")


----------------------------------------------------------------------------
(* Further properties of the wrapper and of __call__ *)

(* the pull about to happen finds next(self.streamer) raising an exception
   other than StopIteration *)
UnderlyingRaises ==
    /\ pc = "returned"
    /\ ret.t = "wrapper"
    /\ ret.streamer = StreamerHandle => streamer.index < Len(streamer.items)
    /\ NextChunk(ret.streamer, streamer).k = "raise"

(* the envelope of an exception with text m *)
IsStreamErrorEnvelope(v, m) ==
    /\ IsEnvelope(v)
    /\ v.a["content"] = PStr("Error in stream: " \o m)
    /\ v.a["model_output"] = PStr("Error in stream: " \o m)
    /\ v.a["error"] = PStr(m)

C22_OnePull ==
    (UnderlyingRaises /\ Pull /\ Len(yielded) < MaxYield) =>
        /\ Len(yielded') = Len(yielded) + 1
        /\ SubSeq(yielded', 1, Len(yielded)) = yielded
        /\ IsStreamErrorEnvelope(yielded'[Len(yielded')], NextChunk(ret.streamer, streamer).m)
        /\ stops' = stops
        /\ ret' = ret
        /\ pc' = "returned"
        /\ ret.streamer = MockStreamerHandle => streamer'.index = streamer.index + 1

(* C22: when next(self.streamer) raises an exception e other than
   StopIteration, that pull yields exactly one envelope whose content and
   model_output are "Error in stream: " + str(e) and whose error is str(e),
   end-of-sequence is not signalled, and the wrapper stays on the same
   underlying stream, which the next pull reads again *)
C22_StreamErrorEnvelope == [][C22_OnePull]_vars

(* an error envelope was followed by the envelope of the next fragment *)
C22_Witness ==
    /\ pc = "returned"
    /\ ret = StreamerWrapper(MockStreamerHandle)
    /\ streamer.items = <<RaiseItem("OOM"), PStr("Hello")>>
    /\ Len(yielded) = 2
    /\ IsStreamErrorEnvelope(yielded[1], "OOM")
    /\ yielded[2].a["content"] = PStr("Hello")
    /\ yielded[2].a["error"] = PNone
    /\ stops = 0


(* on the non-streaming path generate returned an object, not a string, that
   has a content attribute *)
ResultHasContent ==
    /\ pc = "returned"
    /\ ~stream
    /\ genRet.ok
    /\ genRet.v.t = "obj"
    /\ HasAttr(genRet.v, "content")

(* C23: on the non-streaming path a generation result that is an object with
   a content attribute is answered with a fresh envelope, an object other than
   the result, whose content is the result's content, whose token counts are 0
   and whose other optional fields are None wherever the result did not
   supply them *)
C23_AdoptReturnsFreshEnvelope ==
    ResultHasContent =>
        /\ IsEnvelope(ret)
        /\ ret.id = "fresh"
        /\ ret.a["content"] = genRet.v.a["content"]
        /\ \A f \in {"input_token_count", "output_token_count"} :
              f \notin DOMAIN genRet.v.a => ret.a[f] = PInt(0)
        /\ \A f \in {"step_number", "tool_calls", "observations", "error", "duration"} :
              f \notin DOMAIN genRet.v.a => ret.a[f] = PNone


(* the envelopes of fragments received so far *)
FragmentEnvelopes == SelectSeq(yielded, LAMBDA e : e.a["error"] = PNone)

(* iter(wrapper) is the wrapper, and the fragments received are the consumed
   fragments of the underlying stream, each once and in order *)
C24_SinglePass ==
    (pc = "returned" /\ ret.t = "wrapper") =>
        /\ WrapperIter(ret) = ret
        /\ Len(yielded) < MaxYield =>
              /\ Len(FragmentEnvelopes) = Len(ConsumedFragments)
              /\ \A i \in 1..Len(FragmentEnvelopes) :
                    FragmentEnvelopes[i].a["content"] = ConsumedFragments[i]

(* a pull never moves the underlying stream back, and a pull after
   end-of-sequence signals end-of-sequence again and yields nothing *)
C24_OnePull ==
    Pull =>
        /\ ret' = ret
        /\ streamer'.items = streamer.items
        /\ streamer'.index >= streamer.index
        /\ stops > 0 =>
              /\ yielded' = yielded
              /\ streamer' = streamer
              /\ stops' = IF stops < MaxStops THEN stops + 1 ELSE stops

(* C24: the wrapper is single-pass and cannot be restarted: iterating it gives
   the wrapper itself, every fragment of the underlying stream is delivered at
   most once, and every pull made after the wrapper signalled end-of-sequence
   signals end-of-sequence again without yielding an envelope *)
C24_NonRestartable == [](C24_SinglePass) /\ [][C24_OnePull]_vars

(* both fragments were delivered and two pulls in a row signalled the end *)
C24_Witness ==
    /\ pc = "returned"
    /\ ret = StreamerWrapper(MockStreamerHandle)
    /\ streamer.items = <<PStr("Hello"), PStr(" there")>>
    /\ Len(yielded) = 2
    /\ stops = 2


(* C25: the conversation of the caller is left as it was: after
   _format_messages, on the template path, the fallback path and the safe
   default, the sequence, every message mapping in it and every fragment list
   have the keys and values they had before *)
C25_ConversationUnchanged ==
    pc # "start" => conversation = messages

(* the processed messages differ from the caller's, which are as before *)
C25_Witness ==
    /\ pc = "normalized"
    /\ norm.path = "template"
    /\ messages.t = "list"
    /\ Len(messages.items) = 2
    /\ norm.processed # messages
    /\ \E i \in 1..2 : LacksContent(messages.items[i])
    /\ \E i \in 1..2 : HasFragmentList(messages.items[i])
    /\ conversation = messages


(* C26: a single message m that is not in a sequence is normalized to the
   same prompt, by the same path, as the one-element sequence [m], with a chat
   template and without one *)
C26_SingleMessageLifted ==
    (pc = "normalized" /\ messages.t = "dict") =>
        /\ norm.text = format_messages(PList(<<messages>>), hasTemplate, tmplFails).text
        /\ norm.path = format_messages(PList(<<messages>>), hasTemplate, tmplFails).path
        /\ norm.processed = format_messages(PList(<<messages>>), hasTemplate, tmplFails).processed

C26_Witness ==
    /\ pc = "normalized"
    /\ hasTemplate
    /\ messages = PDict([role |-> PStr("user"), content |-> PStr("hello")])
    /\ norm.path = "template"
    /\ norm.processed = PList(<<messages>>)
    /\ norm.text = "<|im_start|>user\nhello<|im_end|>\n<|im_start|>assistant\n"


----------------------------------------------------------------------------
(* Further properties of the options handed to the model *)

(* C27: when the caller passes no do_sample, the do_sample handed to the
   model is (temperature handed to the model > 0), also when the caller's
   temperature lies on the other side of 0 from the configured one *)
C27_DoSampleFollowsTemperature ==
    ( /\ pc = "returned"
      /\ impl = "real"
      /\ forwarded # Nothing
      /\ "do_sample" \notin DOMAIN kwargs )
    => forwarded.d["do_sample"] = PBool(forwarded.d["temperature"].n > 0)


(* C28: on the streaming path the streamer handed to the generation thread is
   the object generate returns to the caller, whatever options the caller
   passes, a streamer option included *)
C28_WorkerWritesToReturnedStream ==
    (pc = "returned" /\ HandleReturned) =>
        /\ forwarded # Nothing
        /\ "streamer" \in DOMAIN forwarded.d
        /\ forwarded.d["streamer"] = genRet.v
        /\ ret = StreamerWrapper(forwarded.d["streamer"])

(* the caller passed a streamer of its own and the thread got generate's *)
C28_Witness ==
    /\ pc = "returned"
    /\ HandleReturned
    /\ "streamer" \in DOMAIN kwargs
    /\ kwargs["streamer"] # StreamerHandle
    /\ forwarded.d["streamer"] = StreamerHandle
    /\ worker = "running"


----------------------------------------------------------------------------
(* The two paths of _format_messages compared *)

RECURSIVE LinesWithContents(_, _)
(* the lines of the simple format with the contents taken from the messages
   processed for the chat template *)
LinesWithContents(ms, processed) ==
    IF Len(ms) = 0 THEN ""
    ELSE ExpectedRole(ms[1]) \o ": " \o processed[1].d["content"].s \o "\n"
         \o LinesWithContents(Tail(ms), Tail(processed))

(* C29: on every sequence of messages on which neither loop raises, the
   template loop and the fallback loop resolve each message to the same
   content string (a string element is that string as a user message, a
   missing content is "", a fragment list is its pieces joined by newlines,
   any other value its string conversion): the paths differ in the final
   assembly only *)
C29_PathsResolveAlike ==
    ( /\ pc = "normalized"
      /\ hasTemplate
      /\ messages.t \in {"dict", "list"}
      /\ norm.processed # Nothing
      /\ format_messages(messages, FALSE, FALSE).path = "fallback" )
    => /\ Len(norm.processed.items) = Len(MessagesOf(messages))
       /\ \A i \in 1..Len(MessagesOf(messages)) :
             /\ norm.processed.items[i].d["content"]
                   = PStr(ExpectedContent(MessagesOf(messages)[i]))
             /\ MessagesOf(messages)[i].t = "str" =>
                   norm.processed.items[i].d["role"] = PStr("user")
       /\ format_messages(messages, FALSE, FALSE).text
             = LinesWithContents(MessagesOf(messages), norm.processed.items) \o "Assistant: "

C29_Witness ==
    /\ pc = "normalized"
    /\ hasTemplate
    /\ norm.path = "template"
    /\ messages.t = "list"
    /\ Len(messages.items) = 2
    /\ messages.items[1] = PStr("hi")
    /\ HasFragmentList(messages.items[2])
    /\ norm.processed.items[1] = PDict([role |-> PStr("user"), content |-> PStr("hi")])
    /\ norm.processed.items[2].d["content"] = PStr("a\nb")
    /\ format_messages(messages, FALSE, FALSE).text = "User: hi\nUser: a\nb\nAssistant: "


----------------------------------------------------------------------------
(* Properties of get_local_time_from_ip *)

StepOrder == <<"ip", "geo", "json", "timezone", "resolve">>

IsSuccessMessage(v) == v.t = "str" /\ StartsWith(v.s, "The current local time in ")

(* C30: get_local_time_from_ip returns a string and never raises; its steps
   happen in one order and it returns at the first step that fails: the
   geolocation request is made only after the IP request answered 200, the
   timezone is read only after the geolocation request answered 200 with
   status "success", and the success message, which names the city and the
   timezone, is returned only for a timezone that is not empty and was
   resolved *)
C30_StepsInOrder ==
    /\ Len(tool.log) <= Len(StepOrder)
    /\ tool.log = SubSeq(StepOrder, 1, Len(tool.log))
    /\ tool.pc = "done" => tool.result.t = "str"
    /\ tool.pc # "done" => tool.result = Nothing
    /\ Len(tool.log) >= 2 => tool.ipStatus = 200
    /\ Len(tool.log) >= 3 => tool.geoStatus = 200
    /\ Len(tool.log) >= 4 =>
          /\ tool.geoData.t = "dict"
          /\ "status" \in DOMAIN tool.geoData.d
          /\ tool.geoData.d["status"] = PStr("success")
    /\ Len(tool.log) >= 5 => Truthy(tool.timezone)
    /\ IsSuccessMessage(tool.result) =>
          /\ tool.log = StepOrder
          /\ tool.timezone.t = "str"
          /\ tool.timezone.s # ""
          /\ tool.timezone.s \in KnownTimezones
          /\ Contains(tool.result.s, tool.timezone.s)
          /\ "city" \in DOMAIN tool.geoData.d =>
                Contains(tool.result.s, PyStr(tool.geoData.d["city"]))

C30_Witness ==
    /\ tool.pc = "done"
    /\ tool.log = StepOrder
    /\ tool.ip = "203.0.113.7"
    /\ tool.result
          = PStr("The current local time in Sydney (Australia/Sydney) is: 2026-01-01 09:30:00")

====
